---- MODULE Spec2Model ----
(***************************************************************************)
(* A model of the two pipelines of the repository:                         *)
(*   scripts/refresh-bedrock-data.py  BedrockDataCollector.run   (Spec)    *)
(*   scripts/find_beta_models.py      main, the beta classifier  (SpecBeta)*)
(* Strings that the code inspects character by character (model names and  *)
(* the documentation text) are sequences of one-character strings.         *)
(***************************************************************************)
EXTENDS Integers, Sequences, FiniteSets, TLC

(* ------------------------------ bounds --------------------------------- *)
\* longest candidate region list returned by describe_regions
MaxCandidates == 2
\* most model descriptors the regions return in one run, all lists together
MaxModels == 3
\* most profile descriptors the regions return in one run, all lists together
MaxProfiles == 3
\* most records models.json holds
MaxCatalog == 2
\* longest model name, beside the name of scenario C
MaxNameLen == 1
\* longest documentation text, beside the text of scenario C
MaxDocLen == 2

(* --------------------------- input domains ----------------------------- *)
Regions == {"a", "b"}

\* dict.get on a missing key
None == "<None>"

\* a foundation-model descriptor as one region reports it; modelId None is
\* a descriptor without the key, "" one with an empty key
ModelDescriptors ==
    { [modelId |-> None, modelName |-> "Foo"],
      [modelId |-> "",   modelName |-> "Foo"],
      [modelId |-> "m1", modelName |-> "Foo"],
      [modelId |-> "m1", modelName |-> "FOO"],
      [modelId |-> "m2", modelName |-> "Foo"] }

\* the loop variable `model` outside the loop
NoModel == [modelId |-> None, modelName |-> ""]

ProfileDescriptors ==
    { [inferenceProfileId |-> "p1"], [inferenceProfileId |-> "p2"] }

\* what one probe call of discover_bedrock_regions can do: return a response
\* with the modelSummaries field, return one without it, raise a
\* BotoCoreError/ClientError, raise another Exception
ProbeOutcomes == {"listing", "no_listing", "ClientError", "Exception"}

SeqsUpTo(S, k) == UNION { [1..j -> S] : j \in 0..k }

\* the characters of names and documents: a cased pair, and "Sigma", the
\* capital letter U+03A3, which lower-cases to "sigma" (U+03C3) or to
\* "finalsigma" (U+03C2)
Alphabet == {"x", "X", "Sigma"}

\* scenario C: the name "MODEL-X" and the text "model-x"
ModelX == << "M", "O", "D", "E", "L", "-", "X" >>
DocModelX == << "m", "o", "d", "e", "l", "-", "x" >>

Names == SeqsUpTo(Alphabet, MaxNameLen) \cup {ModelX}

Docs == SeqsUpTo(Alphabet, MaxDocLen) \cup {DocModelX}

\* a record of models.json: modelId None is a record without the key,
\* hasName FALSE one without modelName, status None one without
\* modelLifecycle.status
RawModels ==
    { r \in [modelId : {None, "m1", "m2"}, hasName : BOOLEAN, modelName : Names,
             providerName : {"P"}, status : {None, "ACTIVE", "LEGACY"}] :
        ~r.hasName => r.modelName = << >> }

(* ------------------------------ state ---------------------------------- *)
VARIABLES
    pc,                 \* position of run() in refresh-bedrock-data.py
    idx,                \* index of the current region in the running loop
    n,                  \* descriptors the running method has walked through
    exit_status,        \* status the process exited with (pc = "exit")
    fetch_failed,       \* history: a listing call on a supported region raised
    all_regions,        \* discover_bedrock_regions: the candidate list
    supported,          \* discover_bedrock_regions: the local list
    probe_log,          \* history: region and outcome of every probe call so far
    supported_regions,  \* self.supported_regions
    models_by_id,       \* self.models_by_id, a dict in insertion order
    model,              \* deduplicate_and_collect_models: the loop variable
    sightings,          \* history: the distinct (region, modelId) sightings, in order
    first_seen,         \* history: the descriptors that were first to show their modelId
    profiles_list,      \* self.profiles_list
    responses,          \* history: the profile lists as the regions returned them
    models_json,        \* data/models.json has been written
    profiles_json,      \* data/profiles.json has been written
    bpc,                \* position of main() in find_beta_models.py
    bstatus,            \* status that process exited with (bpc = "exit")
    missing,            \* history: the input file found absent, or None
    models_data,        \* main: models_data, a dict in insertion order
    loaded,             \* load_models_json: records of models.json read so far
    html_content,       \* main: html_content
    bi,                 \* find_beta_models: position in models_data.items()
    beta_models,        \* find_beta_models: beta_models
    found_models,       \* find_beta_models: found_models
    beta_json,          \* data/beta_models.json has been written
    readme_written      \* README.md has been rewritten

dvars == << all_regions, supported, supported_regions, probe_log >>
mvars == << models_by_id, model, sightings, first_seen >>
pvars == << profiles_list, responses >>
fvars == << models_json, profiles_json >>
rvars == << pc, idx, n, exit_status, fetch_failed, dvars, mvars, pvars, fvars >>

bvars == << bpc, bstatus, missing, models_data, loaded, html_content, bi,
           beta_models, found_models, beta_json, readme_written >>

vars == << rvars, bvars >>

(* -------------------------- dict operations ---------------------------- *)
\* a dict is the sequence of its items [key, value] in insertion order
Keys(d) == { d[i].key : i \in 1..Len(d) }

\* k in d
Has(d, k) == k \in Keys(d)

\* d[k]
Get(d, k) == d[CHOOSE i \in 1..Len(d) : d[i].key = k].value

\* d[k] = v
Put(d, k, v) ==
    IF Has(d, k)
    THEN [ i \in 1..Len(d) |-> IF d[i].key = k THEN [key |-> k, value |-> v] ELSE d[i] ]
    ELSE Append(d, [key |-> k, value |-> v])

\* list(d.values())
Values(d) == [ i \in 1..Len(d) |-> d[i].value ]

\* x in s, for a list s
InList(x, s) == \E i \in 1..Len(s) : s[i] = x

\* `not v` is false, for what model.get("modelId") returns
Truthy(v) == v # None /\ v # ""

(* ---------------- refresh-bedrock-data.py: BedrockDataCollector -------- *)
RefreshInit ==
    /\ pc = "describe"
    /\ idx = 1
    /\ n = 0
    /\ exit_status = 0
    /\ fetch_failed = FALSE
    /\ all_regions = << >>
    /\ supported = << >>
    /\ supported_regions = << >>
    /\ probe_log = << >>
    /\ models_by_id = << >>
    /\ model = NoModel
    /\ sightings = << >>
    /\ first_seen = << >>
    /\ profiles_list = << >>
    /\ responses = << >>
    /\ models_json = FALSE
    /\ profiles_json = FALSE

\* run(): except Exception -> sys.exit(1); also the sys.exit(1) of line 180
Abort ==
    /\ pc' = "exit"
    /\ exit_status' = 1

\* describe_regions() returns the candidates, or raises and
\* discover_bedrock_regions re-raises
DescribeRegions ==
    /\ UNCHANGED bvars
    /\ pc = "describe"
    /\ \/ /\ \E rs \in SeqsUpTo(Regions, MaxCandidates) : all_regions' = rs
          /\ pc' = "probe"
          /\ UNCHANGED exit_status
       \/ /\ Abort
          /\ UNCHANGED all_regions
    /\ UNCHANGED << idx, n, fetch_failed, supported, supported_regions,
                    probe_log, mvars, pvars, fvars >>

\* a mutant of Probed: any response counts, with the listing field or not
ProbedAnyResponse(sup, region, outcome) ==
    IF outcome \in {"listing", "no_listing"} THEN Append(sup, region) ELSE sup

\* the body of the probing loop: the list `supported` after the probe of
\* `region` ended as `outcome`
Probed(sup, region, outcome) ==
    IF outcome = "listing" THEN Append(sup, region) ELSE sup

\* one iteration of `for region in all_regions`
Probe ==
    /\ UNCHANGED bvars
    /\ pc = "probe"
    /\ idx <= Len(all_regions)
    /\ \E outcome \in ProbeOutcomes :
          /\ probe_log' = Append(probe_log, [region |-> all_regions[idx],
                                             outcome |-> outcome])
          /\ supported' = Probed(supported, all_regions[idx], outcome)
    /\ idx' = idx + 1
    /\ UNCHANGED << pc, n, exit_status, fetch_failed, all_regions,
                    supported_regions, mvars, pvars, fvars >>

\* the loop is over: self.supported_regions = supported, the method returns
\* (its locals are gone), and run() exits when no region is supported
EndDiscover ==
    /\ UNCHANGED bvars
    /\ pc = "probe"
    /\ idx > Len(all_regions)
    /\ supported_regions' = supported
    /\ all_regions' = << >>
    /\ supported' = << >>
    /\ probe_log' = << >>
    /\ idx' = 1
    /\ IF supported = << >>
       THEN Abort
       ELSE pc' = "models" /\ UNCHANGED exit_status
    /\ UNCHANGED << n, fetch_failed, mvars, pvars, fvars >>

\* a mutant of FetchError: the error is logged and the loop goes on
FetchErrorSwallowed ==
    /\ pc' = pc
    /\ idx' = idx + 1
    /\ UNCHANGED exit_status

\* a listing call raised: fetch_*_from_region re-raises, the collecting
\* method re-raises, run() exits with status 1
FetchError ==
    /\ Abort
    /\ UNCHANGED idx

\* model.copy() with ["regions"] = [region]
NewEntry(m, region) ==
    [modelId |-> m.modelId, modelName |-> m.modelName, regions |-> << region >>]

\* a mutant of MergeModel: a descriptor without modelId is stored too
MergeModelNoSkip(d, m, region) ==
    IF ~Has(d, m.modelId)
    THEN Put(d, m.modelId, NewEntry(m, region))
    ELSE IF InList(region, Get(d, m.modelId).regions) THEN d
    ELSE Put(d, m.modelId, [Get(d, m.modelId) EXCEPT !.regions = Append(@, region)])

\* a mutant of MergeModel: the region is appended without the membership test
MergeModelAlwaysAppend(d, m, region) ==
    IF ~Truthy(m.modelId) THEN d
    ELSE IF ~Has(d, m.modelId)
    THEN Put(d, m.modelId, NewEntry(m, region))
    ELSE Put(d, m.modelId, [Get(d, m.modelId) EXCEPT !.regions = Append(@, region)])

\* a mutant of MergeModel: a later sighting refreshes the stored payload
MergeModelLastWins(d, m, region) ==
    IF ~Truthy(m.modelId) THEN d
    ELSE IF ~Has(d, m.modelId)
    THEN Put(d, m.modelId, NewEntry(m, region))
    ELSE Put(d, m.modelId,
             [Get(d, m.modelId) EXCEPT
                 !.modelName = m.modelName,
                 !.regions = IF InList(region, @) THEN @ ELSE Append(@, region)])

\* the body of `for model in models`: self.models_by_id after the descriptor
\* m, reported by `region`, has been processed
MergeModel(d, m, region) ==
    IF ~Truthy(m.modelId) THEN d
    ELSE IF ~Has(d, m.modelId)
    THEN Put(d, m.modelId, NewEntry(m, region))
    ELSE IF InList(region, Get(d, m.modelId).regions) THEN d
    ELSE Put(d, m.modelId, [Get(d, m.modelId) EXCEPT !.regions = Append(@, region)])

\* fetch_models_from_region(region) for the next supported region: the call
\* raises, or returns a list that the loop then walks through
FetchModels ==
    /\ UNCHANGED bvars
    /\ pc = "models"
    /\ idx <= Len(supported_regions)
    /\ \/ /\ fetch_failed' = TRUE
          /\ FetchError
       \/ /\ pc' = "merge"
          /\ UNCHANGED << idx, exit_status, fetch_failed >>
    /\ UNCHANGED << n, dvars, mvars, pvars, fvars >>

\* one iteration of `for model in models`. The list is local and is never
\* changed, so its next descriptor is drawn when the loop reaches it.
MergeStep ==
    /\ UNCHANGED bvars
    /\ pc = "merge"
    /\ n < MaxModels
    /\ \E m \in ModelDescriptors :
          LET region == supported_regions[idx] IN
          /\ model' = m
          /\ models_by_id' = MergeModel(models_by_id, m, region)
          /\ sightings' =
                IF Truthy(m.modelId)
                   /\ ~InList([region |-> region, modelId |-> m.modelId], sightings)
                THEN Append(sightings, [region |-> region, modelId |-> m.modelId])
                ELSE sightings
          /\ first_seen' =
                IF Truthy(m.modelId) /\ ~Has(first_seen, m.modelId)
                THEN Put(first_seen, m.modelId, m)
                ELSE first_seen
    /\ n' = n + 1
    /\ UNCHANGED << pc, idx, exit_status, fetch_failed, dvars, pvars, fvars >>

\* the region's list is exhausted: next region
EndRegionModels ==
    /\ UNCHANGED bvars
    /\ pc = "merge"
    /\ pc' = "models"
    /\ idx' = idx + 1
    /\ UNCHANGED << n, exit_status, fetch_failed, dvars, mvars, pvars, fvars >>

\* deduplicate_and_collect_models returns; run() calls
\* collect_and_flatten_profiles
EndModels ==
    /\ UNCHANGED bvars
    /\ pc = "models"
    /\ idx > Len(supported_regions)
    /\ pc' = "profiles"
    /\ idx' = 1
    /\ model' = NoModel
    /\ n' = 0
    /\ UNCHANGED << exit_status, fetch_failed, dvars, models_by_id,
                    sightings, first_seen, pvars, fvars >>

\* profile.copy() with ["region"] = region
ProfileCopy(profile, region) ==
    [inferenceProfileId |-> profile.inferenceProfileId, region |-> region]

\* a mutant of FlattenProfile: a profile id already collected is merged away
FlattenProfileDedup(list, profile, region) ==
    IF \E i \in 1..Len(list) : list[i].inferenceProfileId = profile.inferenceProfileId
    THEN list
    ELSE Append(list, ProfileCopy(profile, region))

\* the body of `for profile in profiles`: self.profiles_list after the copy
\* of `profile`, annotated with `region`, has been appended
FlattenProfile(list, profile, region) ==
    Append(list, ProfileCopy(profile, region))

\* fetch_profiles_from_region(region) for the next supported region
FetchProfiles ==
    /\ UNCHANGED bvars
    /\ pc = "profiles"
    /\ idx <= Len(supported_regions)
    /\ \/ /\ fetch_failed' = TRUE
          /\ FetchError
          /\ UNCHANGED responses
       \/ /\ pc' = "flatten"
          /\ responses' = Append(responses, [region |-> supported_regions[idx],
                                             profiles |-> << >>])
          /\ UNCHANGED << idx, exit_status, fetch_failed >>
    /\ UNCHANGED << n, dvars, mvars, profiles_list, fvars >>

\* one iteration of `for profile in profiles`; as in MergeStep the next
\* descriptor of the returned list is drawn when the loop reaches it
FlattenStep ==
    /\ UNCHANGED bvars
    /\ pc = "flatten"
    /\ n < MaxProfiles
    /\ \E profile \in ProfileDescriptors :
          /\ profiles_list' = FlattenProfile(profiles_list, profile,
                                             supported_regions[idx])
          /\ responses' = [responses EXCEPT
                              ![Len(responses)].profiles = Append(@, profile)]
    /\ n' = n + 1
    /\ UNCHANGED << pc, idx, exit_status, fetch_failed, dvars, mvars, fvars >>

\* the region's list is exhausted: next region
EndRegionProfiles ==
    /\ UNCHANGED bvars
    /\ pc = "flatten"
    /\ pc' = "profiles"
    /\ idx' = idx + 1
    /\ UNCHANGED << n, exit_status, fetch_failed, dvars, mvars, pvars, fvars >>

\* collect_and_flatten_profiles returns; run() calls save_data
EndProfiles ==
    /\ UNCHANGED bvars
    /\ pc = "profiles"
    /\ idx > Len(supported_regions)
    /\ pc' = "save"
    /\ UNCHANGED << idx, n, exit_status, fetch_failed, dvars, mvars, pvars,
                    fvars >>

\* save_data writes models.json ...
SaveModels ==
    /\ UNCHANGED bvars
    /\ pc = "save"
    /\ ~models_json
    /\ models_json' = TRUE
    /\ UNCHANGED << pc, idx, n, exit_status, fetch_failed, dvars, mvars,
                    pvars, profiles_json >>

\* ... then profiles.json; run() returns and the process ends with status 0
SaveProfiles ==
    /\ UNCHANGED bvars
    /\ pc = "save"
    /\ models_json
    /\ profiles_json' = TRUE
    /\ pc' = "exit"
    /\ exit_status' = 0
    /\ UNCHANGED << idx, n, fetch_failed, dvars, mvars, pvars, models_json >>

(* ------------------------ find_beta_models.py -------------------------- *)
BetaInit ==
    /\ bpc = "start"
    /\ bstatus = 0
    /\ missing = None
    /\ models_data = << >>
    /\ loaded = 0
    /\ html_content = << >>
    /\ bi = 1
    /\ beta_models = << >>
    /\ found_models = << >>
    /\ beta_json = FALSE
    /\ readme_written = FALSE

\* a in b, for strings
IsSubstring(a, b) ==
    \E k \in 0..(Len(b) - Len(a)) : \A i \in 1..Len(a) : b[k + i] = a[i]

\* the lower-case mapping of one character out of context
LowerChar(c) ==
    CASE c = "X" -> "x"
      [] c = "M" -> "m"
      [] c = "O" -> "o"
      [] c = "D" -> "d"
      [] c = "E" -> "e"
      [] c = "L" -> "l"
      [] c = "Sigma" -> "sigma"
      [] OTHER -> c

\* letters that have a case
Cased(c) ==
    c \in {"x", "X", "m", "M", "o", "O", "d", "D", "e", "E", "l", "L",
           "Sigma", "sigma", "finalsigma"}

\* characters the final-sigma rule looks through; none of the characters
\* used here ("'" and "." would be)
CaseIgnorable(c) == c \in {"'", "."}

\* str.lower() gives U+03A3 its final form when a cased letter precedes it
\* and none follows it, looking through case-ignorable characters
FinalSigma(t, i) ==
    LET before == { j \in 1..(i - 1) : ~CaseIgnorable(t[j]) }
        after  == { j \in (i + 1)..Len(t) : ~CaseIgnorable(t[j]) }
    IN  /\ before # {}
        /\ Cased(t[CHOOSE j \in before : \A k \in before : k <= j])
        /\ \/ after = {}
           \/ ~Cased(t[CHOOSE j \in after : \A k \in after : j <= k])

\* str.lower()
Lower(t) ==
    [ i \in 1..Len(t) |->
        IF t[i] = "Sigma"
        THEN IF FinalSigma(t, i) THEN "finalsigma" ELSE "sigma"
        ELSE LowerChar(t[i]) ]

\* model.get('modelId', '')
ModelId(raw) == IF raw.modelId = None THEN "" ELSE raw.modelId

\* model.get('modelName', '')
ModelName(raw) == IF raw.hasName THEN raw.modelName ELSE << >>

\* full_model.get('modelLifecycle', {}).get('status', '')
LifecycleStatus(full_model) ==
    IF full_model.status = None THEN "" ELSE full_model.status

\* the body of `for model in models` of load_models_json
LoadModel(d, raw) ==
    IF ModelId(raw) # ""
    THEN Put(d, ModelId(raw), [name |-> ModelName(raw),
                               provider |-> raw.providerName,
                               full_model |-> raw])
    ELSE d

\* the record find_beta_models appends for a model
Item(model_id, model_info) ==
    [id |-> model_id, name |-> model_info.name, provider |-> model_info.provider]

\* a mutant of FindBetaStep: LEGACY models are classified like the others
FindBetaStepNoLegacySkip(r, model_id, model_info, doc) ==
    IF IsSubstring(model_info.name, doc)
    THEN [r EXCEPT !.found = Append(@, Item(model_id, model_info))]
    ELSE IF IsSubstring(Lower(model_info.name), Lower(doc))
    THEN [r EXCEPT !.found = Append(@, Item(model_id, model_info))]
    ELSE [r EXCEPT !.beta = Append(@, Item(model_id, model_info))]

\* a mutant of FindBetaStep: no case-insensitive second try
FindBetaStepExactOnly(r, model_id, model_info, doc) ==
    IF LifecycleStatus(model_info.full_model) = "LEGACY" THEN r
    ELSE IF IsSubstring(model_info.name, doc)
    THEN [r EXCEPT !.found = Append(@, Item(model_id, model_info))]
    ELSE [r EXCEPT !.beta = Append(@, Item(model_id, model_info))]

\* the body of `for model_id, model_info in models_data.items()`: the lists
\* r.beta and r.found after one model has been classified against doc
FindBetaStep(r, model_id, model_info, doc) ==
    IF LifecycleStatus(model_info.full_model) = "LEGACY" THEN r
    ELSE IF IsSubstring(model_info.name, doc)
    THEN [r EXCEPT !.found = Append(@, Item(model_id, model_info))]
    ELSE IF IsSubstring(Lower(model_info.name), Lower(doc))
    THEN [r EXCEPT !.found = Append(@, Item(model_id, model_info))]
    ELSE [r EXCEPT !.beta = Append(@, Item(model_id, model_info))]

\* load_models_json opens models.json: a missing file raises
\* FileNotFoundError, which nothing catches, and the interpreter exits
\* with status 1
OpenModels ==
    /\ bpc = "start"
    /\ \/ /\ missing' = "models.json"
          /\ bpc' = "exit"
          /\ bstatus' = 1
       \/ /\ bpc' = "load"
          /\ UNCHANGED << missing, bstatus >>
    /\ UNCHANGED << models_data, loaded, html_content, bi, beta_models,
                    found_models, beta_json, readme_written >>
    /\ UNCHANGED rvars

\* one iteration of `for model in models`; the next record of the parsed
\* file is drawn when the loop reaches it
LoadStep ==
    /\ bpc = "load"
    /\ loaded < MaxCatalog
    /\ \E raw \in RawModels : models_data' = LoadModel(models_data, raw)
    /\ loaded' = loaded + 1
    /\ UNCHANGED << bpc, bstatus, missing, html_content, bi, beta_models,
                    found_models, beta_json, readme_written >>
    /\ UNCHANGED rvars

\* load_models_json returns
LoadDone ==
    /\ bpc = "load"
    /\ bpc' = "html"
    /\ loaded' = 0
    /\ UNCHANGED << bstatus, missing, models_data, html_content, bi,
                    beta_models, found_models, beta_json, readme_written >>
    /\ UNCHANGED rvars

\* `if not html_path.exists()`: main prints an error and returns, and the
\* process ends like any run of main that returned
HtmlMissing ==
    /\ bpc' = "exit"
    /\ bstatus' = 0

\* the check for the documentation snapshot, then
\* extract_pricing_html_content: html_content is the decoded text
ReadHtml ==
    /\ bpc = "html"
    /\ \/ /\ missing' = "html"
          /\ HtmlMissing
          /\ UNCHANGED html_content
       \/ /\ \E doc \in Docs : html_content' = doc
          /\ bpc' = "classify"
          /\ UNCHANGED << missing, bstatus >>
    /\ UNCHANGED << models_data, loaded, bi, beta_models, found_models,
                    beta_json, readme_written >>
    /\ UNCHANGED rvars

\* one iteration of the loop of find_beta_models
ClassifyStep ==
    /\ bpc = "classify"
    /\ bi <= Len(models_data)
    /\ LET r == FindBetaStep([beta |-> beta_models, found |-> found_models],
                             models_data[bi].key, models_data[bi].value,
                             html_content)
       IN  /\ beta_models' = r.beta
           /\ found_models' = r.found
    /\ bi' = bi + 1
    /\ UNCHANGED << bpc, bstatus, missing, models_data, loaded, html_content,
                    beta_json, readme_written >>
    /\ UNCHANGED rvars

\* find_beta_models returns beta_models, found_models
ClassifyDone ==
    /\ bpc = "classify"
    /\ bi > Len(models_data)
    /\ bpc' = "save"
    /\ UNCHANGED << bstatus, missing, models_data, loaded, html_content, bi,
                    beta_models, found_models, beta_json, readme_written >>
    /\ UNCHANGED rvars

\* json.dump(beta_models) to data/beta_models.json
SaveBeta ==
    /\ bpc = "save"
    /\ beta_json' = TRUE
    /\ bpc' = "readme"
    /\ UNCHANGED << bstatus, missing, models_data, loaded, html_content, bi,
                    beta_models, found_models, readme_written >>
    /\ UNCHANGED rvars

\* README.md is absent (a warning), has no markers (update_readme_table
\* warns and returns) or is rewritten; main returns
UpdateReadme ==
    /\ bpc = "readme"
    /\ \E readme \in {"absent", "no_markers", "markers"} :
          readme_written' = (readme = "markers")
    /\ bpc' = "exit"
    /\ bstatus' = 0
    /\ UNCHANGED << missing, models_data, loaded, html_content, bi,
                    beta_models, found_models, beta_json >>
    /\ UNCHANGED rvars

NextBeta ==
    \/ OpenModels
    \/ LoadStep
    \/ LoadDone
    \/ ReadHtml
    \/ ClassifyStep
    \/ ClassifyDone
    \/ SaveBeta
    \/ UpdateReadme

(* --------------------------- specifications --------------------------- *)
Init == RefreshInit /\ BetaInit

Next ==
    \/ DescribeRegions
    \/ Probe
    \/ EndDiscover
    \/ FetchModels
    \/ MergeStep
    \/ EndRegionModels
    \/ EndModels
    \/ FetchProfiles
    \/ FlattenStep
    \/ EndRegionProfiles
    \/ EndProfiles
    \/ SaveModels
    \/ SaveProfiles

Spec == Init /\ [][Next]_vars

SpecBeta == Init /\ [][NextBeta]_vars

(* ------------------- properties of the refresh pipeline ---------------- *)
Entries == Values(models_by_id)

SightedIds == { sightings[i].modelId : i \in 1..Len(sightings) }

NoDuplicates(s) == \A i, j \in 1..Len(s) : i # j => s[i] # s[j]

\* the regions that reported id, in the order of their first report
ReportingRegions(id) ==
    LET s == SelectSeq(sightings, LAMBDA x : x.modelId = id)
    IN  [ i \in 1..Len(s) |-> s[i].region ]

\* the step has processed a descriptor without modelId (missing or empty)
DroppedStep ==
    /\ pc = "merge"
    /\ n' = n + 1
    /\ ~Truthy(model'.modelId)

\* C1: the catalog holds exactly one entry for each distinct modelId that a
\* processed region reported and none for a descriptor without modelId (a
\* missing or empty key); processing such a descriptor changes no entry and
\* the loop goes on
C1_OneEntryPerModelId ==
    /\ [](\A id \in SightedIds :
             Cardinality({ i \in 1..Len(Entries) : Entries[i].modelId = id }) = 1)
    /\ [](\A i \in 1..Len(models_by_id) :
             /\ models_by_id[i].key = Entries[i].modelId
             /\ Truthy(Entries[i].modelId)
             /\ Entries[i].modelId \in SightedIds)
    /\ [][DroppedStep =>
             /\ models_by_id' = models_by_id
             /\ pc' = "merge"
             /\ exit_status' = exit_status]_vars

\* C1 witness: an id was reported by two regions and the descriptor just
\* processed has no modelId
C1_Witness ==
    /\ pc = "merge"
    /\ model # NoModel
    /\ ~Truthy(model.modelId)
    /\ Len(sightings) = 2
    /\ Len(models_by_id) = 1

\* C2: in every state each entry's regions list has no region twice and
\* lists the regions in the order in which they first reported the modelId
C2_RegionsInFirstSightingOrder ==
    \A i \in 1..Len(Entries) :
        /\ NoDuplicates(Entries[i].regions)
        /\ Entries[i].regions = ReportingRegions(Entries[i].modelId)

\* C2 witness: three descriptors with a modelId made two distinct
\* sightings only (one was a repeat), and an entry has two regions
C2_Witness ==
    /\ pc = "merge"
    /\ n = 3
    /\ Truthy(model.modelId)
    /\ Len(sightings) = 2
    /\ \E i \in 1..Len(Entries) : Len(Entries[i].regions) = 2

\* the step keeps every entry in place with its fields other than regions
PayloadKept ==
    \A i \in 1..Len(models_by_id) :
        /\ i <= Len(models_by_id')
        /\ models_by_id'[i].key = models_by_id[i].key
        /\ models_by_id'[i].value.modelId = models_by_id[i].value.modelId
        /\ models_by_id'[i].value.modelName = models_by_id[i].value.modelName

\* region a was first to report m1, as "Foo"; region b now reports m1 as "FOO"
ScenarioA ==
    /\ pc = "merge"
    /\ supported_regions[idx] = "b"
    /\ model = [modelId |-> "m1", modelName |-> "FOO"]
    /\ first_seen = << [key |-> "m1", value |-> [modelId |-> "m1", modelName |-> "Foo"]] >>
    /\ sightings = << [region |-> "a", modelId |-> "m1"], [region |-> "b", modelId |-> "m1"] >>

\* C3: a descriptor whose modelId is already in the catalog changes no field
\* of an entry but regions: every entry keeps the payload of the descriptor
\* first seen with its modelId, and a reporting m1 as "Foo" before b reports
\* it as "FOO" gives the one entry named "Foo" with regions [a, b]
C3_FirstSeenPayloadWins ==
    /\ [][PayloadKept]_vars
    /\ [](\A i \in 1..Len(Entries) :
             Entries[i].modelName = Get(first_seen, Entries[i].modelId).modelName)
    /\ [](ScenarioA =>
             models_by_id = << [key |-> "m1",
                                value |-> [modelId |-> "m1", modelName |-> "Foo",
                                           regions |-> << "a", "b" >>]] >>)

\* C3 witness: the scenario has happened
C3_Witness == ScenarioA

\* C4: once a listing call on a supported region has raised, the run has
\* ended with a non-zero status and neither output file is written
C4_FetchFailureAbortsWithoutOutput ==
    fetch_failed =>
        /\ pc = "exit"
        /\ exit_status # 0
        /\ ~models_json
        /\ ~profiles_json

\* C4 witness: the profile listing of the second region raised after the
\* models of both regions and the profiles of the first were collected
C4_Witness ==
    /\ fetch_failed
    /\ idx = 2
    /\ Len(models_by_id) >= 1
    /\ Len(profiles_list) >= 1

\* the regions whose probe returned a response with the listing field
ListingRegions(log) ==
    LET s == SelectSeq(log, LAMBDA x : x.outcome = "listing")
    IN  [ i \in 1..Len(s) |-> s[i].region ]

\* C5: discover_bedrock_regions probes each candidate once, in order, goes
\* on after a probe that raised, and returns the candidates whose probe
\* returned a response with the listing field, in candidate order
C5_DiscoverReturnsListingRegions ==
    /\ [](pc = "probe" =>
             /\ Len(probe_log) = idx - 1
             /\ idx <= Len(all_regions) + 1
             /\ \A i \in 1..Len(probe_log) : probe_log[i].region = all_regions[i]
             /\ supported = ListingRegions(probe_log))
    /\ [][pc = "probe" /\ pc' # "probe" =>
             /\ Len(probe_log) = Len(all_regions)
             /\ supported_regions' = ListingRegions(probe_log)]_vars

\* C5 witness: the loop is over, the first candidate's probe raised and the
\* second candidate alone is in the list to return
C5_Witness ==
    /\ pc = "probe"
    /\ idx > Len(all_regions)
    /\ Len(all_regions) = 2
    /\ probe_log[1].outcome \in {"ClientError", "Exception"}
    /\ supported = << all_regions[2] >>

RECURSIVE Flattened(_)
\* the region-annotated copies of the returned profiles, region by region
Flattened(rs) ==
    IF rs = << >> THEN << >>
    ELSE LET last == rs[Len(rs)] IN
         Flattened(SubSeq(rs, 1, Len(rs) - 1)) \o
         [ i \in 1..Len(last.profiles) |->
             [inferenceProfileId |-> last.profiles[i].inferenceProfileId,
              region |-> last.region] ]

\* collect_and_flatten_profiles has returned
ProfilesCollected == pc = "save" \/ (pc = "exit" /\ exit_status = 0)

\* C10: profiles_list holds one region-annotated copy per returned profile
\* descriptor, nothing merged, in supported-region order and within a region
\* in the order the region returned them
C10_ProfilesFlattenedInOrder ==
    /\ profiles_list = Flattened(responses)
    /\ (ProfilesCollected =>
           /\ Len(responses) = Len(supported_regions)
           /\ \A i \in 1..Len(responses) : responses[i].region = supported_regions[i])

\* C10 witness: a region returned two different profiles and another region
\* returned one of them again
C10_Witness ==
    /\ ProfilesCollected
    /\ Len(profiles_list) = 3
    /\ profiles_list[1].inferenceProfileId # profiles_list[2].inferenceProfileId
    /\ profiles_list[1].region = profiles_list[2].region
    /\ profiles_list[3].region # profiles_list[1].region
    /\ profiles_list[3].inferenceProfileId = profiles_list[1].inferenceProfileId

(* --------------------- properties of the classifier -------------------- *)
\* how often the list holds a record for model_id
Count(list, model_id) ==
    Cardinality({ i \in 1..Len(list) : list[i].id = model_id })

\* the entries find_beta_models has gone through
Classified == { i \in 1..Len(models_data) : i < bi }

NonLegacy(i) == LifecycleStatus(models_data[i].value.full_model) # "LEGACY"

NameOf(i) == models_data[i].value.name

InFound(i) == Count(found_models, models_data[i].key) = 1

InBeta(i) == Count(beta_models, models_data[i].key) = 1

\* the name occurs in the text as it is
OccursExactly(i) == IsSubstring(NameOf(i), html_content)

\* the name occurs in the text when both are lower-cased
OccursIgnoringCase(i) == IsSubstring(Lower(NameOf(i)), Lower(html_content))

\* C6: found and beta are disjoint and together hold each classified entry
\* whose status is not LEGACY exactly once; a LEGACY entry and an entry not
\* yet reached are in neither list
C6_FoundBetaPartitionNonLegacy ==
    /\ \A i \in 1..Len(models_data) :
          Count(found_models, models_data[i].key)
            + Count(beta_models, models_data[i].key)
          = IF i \in Classified /\ NonLegacy(i) THEN 1 ELSE 0
    /\ \A list \in {found_models, beta_models} : \A j \in 1..Len(list) :
          /\ Has(models_data, list[j].id)
          /\ list[j] = Item(list[j].id, Get(models_data, list[j].id))

\* C6 witness: find_beta_models has returned with a LEGACY entry left out
\* and another entry classified
C6_Witness ==
    /\ bpc = "save"
    /\ Len(models_data) = 2
    /\ \E i \in 1..2 : ~NonLegacy(i)
    /\ Len(found_models) + Len(beta_models) = 1

\* C7: a classified non-LEGACY entry whose modelName is empty is in beta
\* and not in found
C7_EmptyNameIsBeta ==
    \A i \in Classified :
        NonLegacy(i) /\ NameOf(i) = << >> =>
            /\ InBeta(i)
            /\ Count(found_models, models_data[i].key) = 0

\* what C8 says of a classified non-LEGACY entry with a non-empty name,
\* the equivalence with one case-insensitive pass left aside
FoundIffOccurs(i) ==
    /\ InFound(i) <=> (OccursExactly(i) \/ OccursIgnoringCase(i))
    /\ InBeta(i) <=> ~(OccursExactly(i) \/ OccursIgnoringCase(i))
    /\ (NameOf(i) = ModelX /\ html_content = DocModelX => InFound(i))

Named == { i \in Classified : NonLegacy(i) /\ NameOf(i) # << >> }

\* C8 as stated: a non-LEGACY entry with a non-empty name is found iff the
\* name occurs in the text exactly or ignoring case, and beta otherwise;
\* "MODEL-X" is found in "model-x"; and the classification is that of the
\* case-insensitive test alone
C8_TwoPhaseEqualsCaseInsensitive ==
    \A i \in Named :
        /\ FoundIffOccurs(i)
        /\ InFound(i) <=> OccursIgnoringCase(i)

\* C8 amended: as C8, the classification being that of the case-insensitive
\* test alone for every name without the capital letter sigma
C8_TwoPhaseClassification ==
    \A i \in Named :
        /\ FoundIffOccurs(i)
        /\ (\A k \in 1..Len(NameOf(i)) : NameOf(i)[k] # "Sigma") =>
              (InFound(i) <=> OccursIgnoringCase(i))

\* C8 witness: "MODEL-X" has been classified against "model-x"
C8_Witness ==
    /\ html_content = DocModelX
    /\ \E i \in Named : NameOf(i) = ModelX /\ InFound(i)

\* C9: when models.json or the documentation snapshot is absent, main ends
\* with a non-zero status, beta_models.json unwritten and README untouched
C9_MissingInputExitsNonZero ==
    bpc = "exit" /\ missing # None =>
        /\ bstatus # 0
        /\ ~beta_json
        /\ ~readme_written

====
